---- MODULE Spec2Model ----
(***************************************************************************)
(* The RAM filesystem directory tree of arceos/axfs_ramfs/src/dir.rs:      *)
(* DirNode with its child table (a BTreeMap behind a spin::RwLock), its    *)
(* weak parent reference, and the operations lookup, create, remove,       *)
(* read_dir and rename, executed by threads that interleave at every lock  *)
(* acquisition.                                                            *)
(*                                                                         *)
(* Paths and names are sequences of one-character strings, so that the     *)
(* string functions (trim_start_matches, find, rfind, strip_prefix) are    *)
(* computed as the code computes them.                                     *)
(*                                                                         *)
(* Every operation is invoked on the root directory of the filesystem; a   *)
(* thread reaches other directories by walking a path, and keeps the       *)
(* references (Arc) it obtained on the way until the operation returns.    *)
(***************************************************************************)
EXTENDS Integers, Sequences, FiniteSets, TLC

\* ------------------------------------------------------------- bounds
MaxNodes == 4
MaxStart == 6
MaxCap == 3
MaxLen == 4

Nodes == 0 .. (MaxNodes - 1)
Root == 0
NONE == -1

T1 == "t1"
T2 == "t2"
Threads == {T1, T2}

\* ------------------------------------------------------------ strings
EMPTY == << >>
DOT == <<".">>
DOTDOT == <<".", ".">>
MOUNT_PREFIX == <<"t", "m", "p", "/">>

CharOrd(c) ==
  CASE c = "." -> 46
    [] c = "/" -> 47
    [] c = "a" -> 97
    [] c = "b" -> 98
    [] c = "c" -> 99
    [] c = "m" -> 109
    [] c = "p" -> 112
    [] c = "t" -> 116

RECURSIVE StrLess(_, _)
StrLess(s, t) ==
  IF s = << >> THEN t # << >>
  ELSE IF t = << >> THEN FALSE
  ELSE IF Head(s) = Head(t) THEN StrLess(Tail(s), Tail(t))
  ELSE CharOrd(Head(s)) < CharOrd(Head(t))

RECURSIVE trim_start_matches(_, _)
trim_start_matches(s, c) ==
  IF s # << >> /\ Head(s) = c THEN trim_start_matches(Tail(s), c) ELSE s

\* str::find: the index (from 1) of the first c in s, 0 when there is none
find(s, c) ==
  IF \E i \in 1 .. Len(s) : s[i] = c
  THEN CHOOSE i \in 1 .. Len(s) : s[i] = c /\ \A j \in 1 .. (i - 1) : s[j] # c
  ELSE 0

rfind_first(s, c) == find(s, c)

\* str::rfind: the index (from 1) of the last c in s, 0 when there is none
rfind(s, c) ==
  IF \E i \in 1 .. Len(s) : s[i] = c
  THEN CHOOSE i \in 1 .. Len(s) : s[i] = c /\ \A j \in (i + 1) .. Len(s) : s[j] # c
  ELSE 0

starts_with(s, p) == Len(s) >= Len(p) /\ SubSeq(s, 1, Len(p)) = p

\* new_path.strip_prefix(p).unwrap_or(new_path)
strip_prefix_or(s, p) ==
  IF starts_with(s, p) THEN SubSeq(s, Len(p) + 1, Len(s)) ELSE s

split_path(path) ==
  LET trimmed_path == trim_start_matches(path, "/")
      n == find(trimmed_path, "/")
  IN  IF n = 0
      THEN [name |-> trimmed_path, has_rest |-> FALSE, rest |-> << >>]
      ELSE [name |-> SubSeq(trimmed_path, 1, n - 1), has_rest |-> TRUE,
            rest |-> SubSeq(trimmed_path, n + 1, Len(trimmed_path))]

split_parent_name(path0) ==
  LET path == trim_start_matches(path0, "/")
      pos == rfind(path, "/")
  IN  IF pos # 0
      THEN LET parent == SubSeq(path, 1, pos - 1)
               name == SubSeq(path, pos + 1, Len(path))
           IN  [parent |-> IF parent = << >> THEN <<"/">> ELSE parent, name |-> name]
      ELSE [parent |-> DOT, name |-> path]

IsSelfRefButEmpty(name) == name = DOT \/ name = DOTDOT
IsSelfRefButDotDot(name) == name = EMPTY \/ name = DOT
IsSelfRef(name) == name = EMPTY \/ name = DOT \/ name = DOTDOT

\* ------------------------------------------------- BTreeMap<String, VfsNodeRef>
\* A table is a set of <<key, node>> entries.
contains_key(tbl, k) == \E e \in tbl : e[1] = k

get(tbl, k) == IF contains_key(tbl, k) THEN (CHOOSE e \in tbl : e[1] = k)[2] ELSE NONE

BTreeInsertKeepOld(tbl, k, v) == tbl \cup {<<k, v>>}
BTreeInsert(tbl, k, v) == {e \in tbl : e[1] # k} \cup {<<k, v>>}

BTreeRemoveNothing(tbl, k) == tbl
BTreeRemove(tbl, k) == {e \in tbl : e[1] # k}

\* the entries in iteration order (ascending key)
RECURSIVE BTreeIter(_)
BTreeIter(tbl) ==
  IF tbl = {} THEN << >>
  ELSE LET m == CHOOSE e \in tbl : \A f \in tbl : ~StrLess(f[1], e[1])
       IN  <<m>> \o BTreeIter(tbl \ {m})

\* -------------------------------------------------------------- state
VARIABLES
  kind,      \* node -> "Free" (not yet made), "File", "Dir", "Dead" (dropped)
  children,  \* DirNode.children: node -> table
  parent,    \* DirNode.parent: node -> node or NONE (a Weak reference)
  writer,    \* children lock: node -> the thread holding it exclusively
  readers,   \* children lock: node -> the threads holding it shared
  th,        \* thread -> its operation, position and locals
  env,       \* which callers exist: "conc", "seq", "mount", "list", "split", ...
  pre,       \* the tables when the running call began (recorded when calls do not overlap)
  pager,     \* a caller that lists a directory page by page
  hm,        \* a HashMap<u8, u8> and what its caller has seen
  ea         \* an EarlyAllocator and what its caller has seen

vars == <<kind, children, parent, writer, readers, th, env, pre, pager, hm, ea>>

NoThread == "none"

Idle ==
  [pc |-> "idle", op |-> "none", arg |-> << >>, arg2 |-> << >>, cur |-> NONE,
   path |-> << >>,
   name |-> << >>,
   ty |-> "none", held |-> {}, ret |-> "none", node |-> NONE, oldp |-> NONE,
   newp |-> NONE, new_name |-> << >>, new_path |-> << >>,
   start |-> 0, cap |-> 0, slots |-> << >>, count |-> 0]

NoSnapshot ==
  [kind |-> [n \in Nodes |-> "Free"], children |-> [n \in Nodes |-> {}],
   parent |-> [n \in Nodes |-> NONE]]
NoPager == [k |-> 0, cursor |-> 0, out |-> << >>, last |-> NONE]

ActiveThreads == IF env = "conc" THEN Threads ELSE {T1}

Live(kd) == {n \in Nodes : kd[n] \in {"File", "Dir"}}

\* the strong references (Arc) a thread's frames hold
HeldBy(r) ==
  IF r.pc = "done"
  THEN IF r.op = "lookup" /\ r.ret = "Ok" THEN {r.node} ELSE {}
  ELSE r.held \cup ({r.node} \ {NONE})

\* Arc's drop: a node no table of a live node and no thread refers to is dropped,
\* and its own table with it; a Weak reference to it never upgrades again
RECURSIVE Dropped(_, _, _, _)
Dropped(kd, ch, hs, dead) ==
  LET live == Live(kd) \ dead
      gone == {n \in live : /\ n # Root
                            /\ n \notin hs
                            /\ ~\E m \in live : \E e \in ch[m] : e[2] = n}
  IN  IF gone = {} THEN dead ELSE Dropped(kd, ch, hs, dead \cup gone)

CommitAll(kd, ch, pa, thr) ==
  LET hs == UNION {HeldBy(thr[t]) : t \in Threads}
      dead == Dropped(kd, ch, hs, {})
  IN  /\ kind' = [n \in Nodes |-> IF n \in dead THEN "Dead" ELSE kd[n]]
      /\ children' = [n \in Nodes |-> IF n \in dead THEN {} ELSE ch[n]]
      /\ parent' = [n \in Nodes |-> IF n \in dead THEN NONE ELSE pa[n]]
      /\ th' = thr

Commit(kd, ch, thr) == CommitAll(kd, ch, parent, thr)

Done(r, code) == [r EXCEPT !.pc = "done", !.ret = code, !.held = {}]

\* spin::RwLock
CanRead(n) == writer[n] = NoThread
CanWrite(n) == writer[n] = NoThread /\ readers[n] = {}

ReadLock(t, n) ==
  /\ CanRead(n)
  /\ readers' = [readers EXCEPT ![n] = @ \cup {t}]
  /\ UNCHANGED writer
ReadUnlock(t, n) ==
  /\ readers' = [readers EXCEPT ![n] = @ \ {t}]
  /\ UNCHANGED writer
WriteLock(t, n) ==
  /\ CanWrite(n)
  /\ writer' = [writer EXCEPT ![n] = t]
  /\ UNCHANGED readers
WriteUnlock(t, n) ==
  /\ writer' = [writer EXCEPT ![n] = NoThread]
  /\ UNCHANGED readers

\* the shared guard of a walk step (self.children.read().get(name)) is a
\* temporary: it is dropped before the call into the node it found
WalkGuardKept(t, n) == UNCHANGED <<readers, writer>>
WalkGuardDropped(t, n) == ReadUnlock(t, n)

\* "..": the directory itself
ParentIsSelf(n) == n

\* DirNode::parent: the Weak reference upgraded
ParentOf(n) ==
  IF parent[n] # NONE /\ kind[parent[n]] = "Dir" THEN parent[n] ELSE NONE

Snapshot ==
  IF env \in {"seq", "mount"} THEN [kind |-> kind, children |-> children, parent |-> parent]
  ELSE NoSnapshot

\* ------------------------------------------------------------- lookup
\* what lookup does with the node its first component resolved to
LookupReturn(r, node) ==
  IF r.op = "lookup" THEN [Done(r, "Ok") EXCEPT !.node = node]
  ELSE \* rename: the parent of old_path, then the parent of new_path
    IF kind[node] # "Dir" THEN Done(r, "InvalidInput")
    ELSE IF r.oldp = NONE
    THEN [r EXCEPT !.oldp = node, !.pc = "lookup", !.cur = Root,
                   !.path = r.new_path, !.held = {Root, node}]
    ELSE [r EXCEPT !.newp = node, !.held = {Root, r.oldp, node}, !.cur = NONE,
                   !.path = << >>,
                   !.pc = IF r.oldp = node THEN "rename_node" ELSE "rename_cross"]

LookupResolved(r, node, sp) ==
  IF node = NONE THEN Done(r, "NotFound")
  ELSE IF sp.has_rest
  THEN IF kind[node] = "File" THEN Done(r, "NotADirectory")
       ELSE [r EXCEPT !.cur = node, !.path = sp.rest, !.held = @ \cup {node},
                      !.pc = "lookup"]
  ELSE LookupReturn(r, node)

CallLookup(t, p) ==
  /\ t \in ActiveThreads
  /\ th[t].pc = "idle"
  /\ th' = [th EXCEPT ![t] = [Idle EXCEPT !.pc = "lookup", !.op = "lookup", !.arg = p,
                                          !.cur = Root, !.path = p, !.held = {Root}]]
  /\ pre' = Snapshot
  /\ UNCHANGED <<kind, children, parent, writer, readers, env, pager, hm, ea>>

Lookup(t) ==
  /\ th[t].pc = "lookup"
  /\ LET r == th[t]
         sp == split_path(r.path)
     IN  IF IsSelfRef(sp.name)
         THEN /\ Commit(kind, children,
                   [th EXCEPT ![t] = LookupResolved(r,
                       IF sp.name = DOTDOT THEN ParentOf(r.cur) ELSE r.cur, sp)])
              /\ UNCHANGED <<writer, readers>>
         ELSE /\ ReadLock(t, r.cur)
              /\ th' = [th EXCEPT ![t].pc = "lookup_get"]
              /\ UNCHANGED <<kind, children, parent>>
  /\ UNCHANGED <<env, pre, pager, hm, ea>>

LookupGet(t) ==
  /\ th[t].pc = "lookup_get"
  /\ LET r == th[t]
         sp == split_path(r.path)
     IN  /\ WalkGuardDropped(t, r.cur)
         /\ Commit(kind, children,
              [th EXCEPT ![t] = LookupResolved(r, get(children[r.cur], sp.name), sp)])
  /\ UNCHANGED <<env, pre, pager, hm, ea>>

\* ------------------------------------------------------------- create
\* the walk create and remove share: one intermediate component resolved to node
\* (a file node answers create, remove and lookup with NotADirectory)
WalkIntoOrStay(r, node, sp) ==
  IF node = NONE THEN [r EXCEPT !.path = sp.rest, !.pc = r.op]
  ELSE IF kind[node] = "File" THEN Done(r, "NotADirectory")
  ELSE [r EXCEPT !.cur = node, !.path = sp.rest, !.held = @ \cup {node}, !.pc = r.op]

WalkInto(r, node, sp) ==
  IF node = NONE THEN Done(r, "NotFound")
  ELSE IF kind[node] = "File" THEN Done(r, "NotADirectory")
  ELSE [r EXCEPT !.cur = node, !.path = sp.rest, !.held = @ \cup {node}, !.pc = r.op]

CallCreate(t, p, ty) ==
  /\ t \in ActiveThreads
  /\ th[t].pc = "idle"
  \* a node is left for every create that may allocate one
  /\ Cardinality({n \in Nodes : kind[n] = "Free"})
       > Cardinality({u \in Threads : th[u].op = "create" /\ th[u].pc # "done"})
  /\ th' = [th EXCEPT ![t] = [Idle EXCEPT !.pc = "create", !.op = "create", !.ty = ty,
                                          !.arg = p, !.cur = Root, !.path = p, !.held = {Root}]]
  /\ pre' = Snapshot
  /\ UNCHANGED <<kind, children, parent, writer, readers, env, pager, hm, ea>>

Create(t) ==
  /\ th[t].pc = "create"
  /\ LET r == th[t]
         sp == split_path(r.path)
     IN  IF sp.has_rest /\ ~IsSelfRef(sp.name)
         THEN /\ ReadLock(t, r.cur)
              /\ th' = [th EXCEPT ![t].pc = "create_get"]
              /\ UNCHANGED <<kind, children, parent>>
         ELSE /\ Commit(kind, children,
                   [th EXCEPT ![t] =
                      IF sp.has_rest
                      THEN WalkInto(r, IF sp.name = DOTDOT THEN ParentOf(r.cur)
                                                           ELSE r.cur, sp)
                      ELSE IF IsSelfRef(sp.name) THEN Done(r, "Ok")
                      ELSE [r EXCEPT !.name = sp.name, !.pc = "create_node"]])
              /\ UNCHANGED <<writer, readers>>
  /\ UNCHANGED <<env, pre, pager, hm, ea>>

CreateGet(t) ==
  /\ th[t].pc = "create_get"
  /\ LET r == th[t]
         sp == split_path(r.path)
     IN  /\ WalkGuardDropped(t, r.cur)
         /\ Commit(kind, children,
              [th EXCEPT ![t] = WalkInto(r, get(children[r.cur], sp.name), sp)])
  /\ UNCHANGED <<env, pre, pager, hm, ea>>

\* create_node: self.exist(name) takes the shared lock
CreateNodeExist(t) ==
  /\ th[t].pc = "create_node"
  /\ ReadLock(t, th[t].cur)
  /\ th' = [th EXCEPT ![t].pc = "create_node_check"]
  /\ UNCHANGED <<kind, children, parent, env, pre, pager, hm, ea>>

CreateNodeCheck(t) ==
  /\ th[t].pc = "create_node_check"
  /\ LET r == th[t]
     IN  /\ ReadUnlock(t, r.cur)
         /\ Commit(kind, children,
              [th EXCEPT ![t] =
                 IF contains_key(children[r.cur], r.name) THEN Done(r, "AlreadyExists")
                 ELSE IF r.ty \notin {"File", "Dir"} THEN Done(r, "Unsupported")
                 ELSE [r EXCEPT !.pc = "create_node_write"]])
  /\ UNCHANGED <<env, pre, pager, hm, ea>>

CreateNodeWrite(t) ==
  /\ th[t].pc = "create_node_write"
  /\ WriteLock(t, th[t].cur)
  /\ th' = [th EXCEPT ![t].pc = "create_node_insert"]
  /\ UNCHANGED <<kind, children, parent, env, pre, pager, hm, ea>>

\* the parent reference of the new node: Self::new(Some(self.this.clone()))
NewNodeOrphan(ty, dir) == NONE
NewNodeParent(ty, dir) == IF ty = "Dir" THEN dir ELSE NONE

\* the node made by FileNode::new() or Self::new(Some(self.this.clone())) is
\* inserted; it takes the lowest unused identity
CreateNodeInsert(t) ==
  /\ th[t].pc = "create_node_insert"
  /\ LET r == th[t]
         node == CHOOSE n \in Nodes : kind[n] = "Free" /\ \A m \in Nodes : kind[m] = "Free" => n <= m
     IN  /\ WriteUnlock(t, r.cur)
         /\ CommitAll([kind EXCEPT ![node] = r.ty],
                      [children EXCEPT ![r.cur] = BTreeInsert(@, r.name, node)],
                      [parent EXCEPT ![node] = NewNodeParent(r.ty, r.cur)],
                      [th EXCEPT ![t] = [Done(r, "Ok") EXCEPT !.node = node]])
  /\ UNCHANGED <<env, pre, pager, hm, ea>>

\* ------------------------------------------------------------- remove
CallRemove(t, p) ==
  /\ t \in ActiveThreads
  /\ th[t].pc = "idle"
  /\ th' = [th EXCEPT ![t] = [Idle EXCEPT !.pc = "remove", !.op = "remove", !.arg = p,
                                          !.cur = Root, !.path = p, !.held = {Root}]]
  /\ pre' = Snapshot
  /\ UNCHANGED <<kind, children, parent, writer, readers, env, pager, hm, ea>>

Remove(t) ==
  /\ th[t].pc = "remove"
  /\ LET r == th[t]
         sp == split_path(r.path)
     IN  IF sp.has_rest /\ ~IsSelfRef(sp.name)
         THEN /\ ReadLock(t, r.cur)
              /\ th' = [th EXCEPT ![t].pc = "remove_get"]
              /\ UNCHANGED <<kind, children, parent>>
         ELSE /\ Commit(kind, children,
                   [th EXCEPT ![t] =
                      IF sp.has_rest
                      THEN WalkInto(r, IF sp.name = DOTDOT THEN ParentOf(r.cur)
                                                           ELSE r.cur, sp)
                      ELSE IF IsSelfRef(sp.name) THEN Done(r, "InvalidInput")
                      ELSE [r EXCEPT !.name = sp.name, !.pc = "remove_node"]])
              /\ UNCHANGED <<writer, readers>>
  /\ UNCHANGED <<env, pre, pager, hm, ea>>

RemoveGet(t) ==
  /\ th[t].pc = "remove_get"
  /\ LET r == th[t]
         sp == split_path(r.path)
     IN  /\ WalkGuardDropped(t, r.cur)
         /\ Commit(kind, children,
              [th EXCEPT ![t] = WalkInto(r, get(children[r.cur], sp.name), sp)])
  /\ UNCHANGED <<env, pre, pager, hm, ea>>

\* remove_node: let mut children = self.children.write()
RemoveNodeWrite(t) ==
  /\ th[t].pc = "remove_node"
  /\ WriteLock(t, th[t].cur)
  /\ th' = [th EXCEPT ![t].pc = "remove_node_get"]
  /\ UNCHANGED <<kind, children, parent, env, pre, pager, hm, ea>>

\* children.get(name), the downcast; a file is removed at once
RemoveNodeGet(t) ==
  /\ th[t].pc = "remove_node_get"
  /\ LET r == th[t]
         node == get(children[r.cur], r.name)
     IN  IF node # NONE /\ kind[node] = "Dir"
         THEN /\ th' = [th EXCEPT ![t] = [r EXCEPT !.node = node, !.pc = "remove_node_dir"]]
              /\ UNCHANGED <<kind, children, parent, writer, readers>>
         ELSE /\ WriteUnlock(t, r.cur)
              /\ IF node = NONE
                 THEN Commit(kind, children, [th EXCEPT ![t] = Done(r, "NotFound")])
                 ELSE Commit(kind, [children EXCEPT ![r.cur] = BTreeRemove(@, r.name)],
                             [th EXCEPT ![t] = [Done(r, "Ok") EXCEPT !.node = node]])
  /\ UNCHANGED <<env, pre, pager, hm, ea>>

AlwaysEmpty(tbl) == TRUE
is_empty(tbl) == tbl = {}

\* dir.children.read() while self.children is held exclusively
RemoveNodeDirRead(t) ==
  /\ th[t].pc = "remove_node_dir"
  /\ ReadLock(t, th[t].node)
  /\ th' = [th EXCEPT ![t].pc = "remove_node_empty"]
  /\ UNCHANGED <<kind, children, parent, env, pre, pager, hm, ea>>

\* is_empty(); the shared lock is a temporary of the condition
RemoveNodeEmpty(t) ==
  /\ th[t].pc = "remove_node_empty"
  /\ LET r == th[t]
     IN  /\ readers' = [readers EXCEPT ![r.node] = @ \ {t}]
         /\ IF ~is_empty(children[r.node])
            THEN /\ writer' = [writer EXCEPT ![r.cur] = NoThread]
                 /\ Commit(kind, children, [th EXCEPT ![t] = Done(r, "DirectoryNotEmpty")])
            ELSE /\ th' = [th EXCEPT ![t].pc = "remove_node_remove"]
                 /\ UNCHANGED <<kind, children, parent, writer>>
  /\ UNCHANGED <<env, pre, pager, hm, ea>>

RemoveNodeRemove(t) ==
  /\ th[t].pc = "remove_node_remove"
  /\ LET r == th[t]
     IN  /\ WriteUnlock(t, r.cur)
         /\ Commit(kind, [children EXCEPT ![r.cur] = BTreeRemove(@, r.name)],
                   [th EXCEPT ![t] = Done(r, "Ok")])
  /\ UNCHANGED <<env, pre, pager, hm, ea>>

\* ------------------------------------------------------------- rename
CallRename(t, old, new) ==
  /\ t \in ActiveThreads
  /\ th[t].pc = "idle"
  /\ LET old_path == trim_start_matches(old, "/")
         new_path == strip_prefix_or(trim_start_matches(new, "/"), MOUNT_PREFIX)
         o == split_parent_name(old_path)
         n == split_parent_name(new_path)
     IN  th' = [th EXCEPT ![t] = [Idle EXCEPT !.pc = "lookup", !.op = "rename",
                                   !.arg = old, !.arg2 = new,
                                   !.cur = Root, !.path = o.parent, !.name = o.name,
                                   !.new_path = n.parent, !.new_name = n.name,
                                   !.held = {Root}]]
  /\ pre' = Snapshot
  /\ UNCHANGED <<kind, children, parent, writer, readers, env, pager, hm, ea>>

\* rename_node: let mut children = self.children.write()
RenameNodeWrite(t) ==
  /\ th[t].pc = "rename_node"
  /\ WriteLock(t, th[t].oldp)
  /\ th' = [th EXCEPT ![t].pc = "rename_node_move"]
  /\ UNCHANGED <<kind, children, parent, env, pre, pager, hm, ea>>

RenameNodeMove(t) ==
  /\ th[t].pc = "rename_node_move"
  /\ LET r == th[t]
         tbl == children[r.oldp]
     IN  /\ WriteUnlock(t, r.oldp)
         /\ IF ~contains_key(tbl, r.name)
            THEN Commit(kind, children, [th EXCEPT ![t] = Done(r, "NotFound")])
            ELSE IF contains_key(tbl, r.new_name)
            THEN Commit(kind, children, [th EXCEPT ![t] = Done(r, "AlreadyExists")])
            ELSE LET node == get(tbl, r.name)
                 IN  Commit(kind,
                       [children EXCEPT ![r.oldp] =
                          BTreeInsert(BTreeRemove(tbl, r.name), r.new_name, node)],
                       [th EXCEPT ![t] = [Done(r, "Ok") EXCEPT !.node = node]])
  /\ UNCHANGED <<env, pre, pager, hm, ea>>

\* the two parents differ: let mut old_children = old_parent.children.write()
RenameOldWrite(t) ==
  /\ th[t].pc = "rename_cross"
  /\ WriteLock(t, th[t].oldp)
  /\ th' = [th EXCEPT ![t].pc = "rename_remove"]
  /\ UNCHANGED <<kind, children, parent, env, pre, pager, hm, ea>>

\* old_children lives to the end of rename: the removal releases nothing
RenameOldReleasedEarly(t, r) == WriteUnlock(t, r.oldp)
RenameOldStillHeld(t, r) == UNCHANGED <<writer, readers>>

\* old_children.remove(old_name).ok_or(NotFound)?
RenameRemove(t) ==
  /\ th[t].pc = "rename_remove"
  /\ LET r == th[t]
         node == get(children[r.oldp], r.name)
     IN  IF node = NONE
         THEN /\ WriteUnlock(t, r.oldp)
              /\ Commit(kind, children, [th EXCEPT ![t] = Done(r, "NotFound")])
         ELSE /\ Commit(kind, [children EXCEPT ![r.oldp] = BTreeRemove(@, r.name)],
                        [th EXCEPT ![t] = [r EXCEPT !.node = node,
                                                    !.pc = "rename_new_write"]])
              /\ RenameOldStillHeld(t, r)
  /\ UNCHANGED <<env, pre, pager, hm, ea>>

\* let mut new_children = new_parent.children.write(), old_children still held
RenameNewWrite(t) ==
  /\ th[t].pc = "rename_new_write"
  /\ WriteLock(t, th[t].newp)
  /\ th' = [th EXCEPT ![t].pc = "rename_insert"]
  /\ UNCHANGED <<kind, children, parent, env, pre, pager, hm, ea>>

\* old_children.insert(old_name.into(), node)
RenameRollbackLost(tbl, old_name, node) == tbl
RenameRollback(tbl, old_name, node) == BTreeInsert(tbl, old_name, node)

RenameUnlockBoth(t, r) ==
  /\ writer' = [writer EXCEPT ![r.newp] = NoThread, ![r.oldp] = NoThread]
  /\ UNCHANGED readers

RenameInsert(t) ==
  /\ th[t].pc = "rename_insert"
  /\ LET r == th[t]
     IN  /\ RenameUnlockBoth(t, r)
         /\ IF contains_key(children[r.newp], r.new_name)
            THEN Commit(kind,
                   [children EXCEPT ![r.oldp] = RenameRollback(@, r.name, r.node)],
                   [th EXCEPT ![t] = Done(r, "AlreadyExists")])
            ELSE Commit(kind,
                   [children EXCEPT ![r.newp] = BTreeInsert(@, r.new_name, r.node)],
                   [th EXCEPT ![t] = Done(r, "Ok")])
  /\ UNCHANGED <<env, pre, pager, hm, ea>>

\* ----------------------------------------------------------- read_dir
NoEntry == [name |-> << >>, ty |-> "Unknown"]

FileNodeType == "File"

\* node.get_attr().unwrap().file_type()
NodeType(n) == IF kind[n] = "Dir" THEN "Dir" ELSE FileNodeType

\* the loop over dirents: slot i (from 0), the iterator's position it
RECURSIVE ReadDirLoop(_, _, _, _, _)
ReadDirLoop(ents, start_idx, i, it, dirents) ==
  IF i = Len(dirents) THEN [count |-> Len(dirents), slots |-> dirents]
  ELSE IF i + start_idx = 0
  THEN ReadDirLoop(ents, start_idx, i + 1, it,
                   [dirents EXCEPT ![i + 1] = [name |-> DOT, ty |-> "Dir"]])
  ELSE IF i + start_idx = 1
  THEN ReadDirLoop(ents, start_idx, i + 1, it,
                   [dirents EXCEPT ![i + 1] = [name |-> DOTDOT, ty |-> "Dir"]])
  ELSE IF it < Len(ents)
  THEN ReadDirLoop(ents, start_idx, i + 1, it + 1,
                   [dirents EXCEPT ![i + 1] = [name |-> ents[it + 1][1],
                                               ty |-> NodeType(ents[it + 1][2])]])
  ELSE [count |-> i, slots |-> dirents]

Max(a, b) == IF a >= b THEN a ELSE b
Min(a, b) == IF a <= b THEN a ELSE b

ReadDirSkipAll(start_idx) == start_idx
\* children.iter().skip(start_idx.max(2) - 2)
ReadDirSkip(start_idx) == Max(start_idx, 2) - 2

read_dir_from_first(tbl, start_idx, dirents) ==
  ReadDirLoop(BTreeIter(tbl), start_idx, 0, 0, dirents)
read_dir(tbl, start_idx, dirents) ==
  ReadDirLoop(BTreeIter(tbl), start_idx, 0, ReadDirSkip(start_idx), dirents)

CallReadDir(t, start_idx, cap) ==
  /\ t \in ActiveThreads
  /\ th[t].pc = "idle"
  /\ th' = [th EXCEPT ![t] = [Idle EXCEPT !.pc = "read_dir", !.op = "read_dir",
                                          !.cur = Root, !.held = {Root},
                                          !.start = start_idx, !.cap = cap,
                                          !.slots = [i \in 1 .. cap |-> NoEntry]]]
  /\ pre' = Snapshot
  /\ UNCHANGED <<kind, children, parent, writer, readers, env, pager, hm, ea>>

\* the paging caller asks for the next page: k slots from its cursor
CallReadDirPage(t) ==
  /\ t \in ActiveThreads
  /\ th[t].pc = "idle"
  /\ pager.k > 0
  /\ pager.last # 0
  /\ th' = [th EXCEPT ![t] = [Idle EXCEPT !.pc = "read_dir", !.op = "read_dir_page",
                                          !.cur = Root, !.held = {Root},
                                          !.start = pager.cursor, !.cap = pager.k,
                                          !.slots = [i \in 1 .. pager.k |-> NoEntry]]]
  /\ pre' = Snapshot
  /\ UNCHANGED <<kind, children, parent, writer, readers, env, pager, hm, ea>>

ReadDirRead(t) ==
  /\ th[t].pc = "read_dir"
  /\ ReadLock(t, th[t].cur)
  /\ th' = [th EXCEPT ![t].pc = "read_dir_fill"]
  /\ UNCHANGED <<kind, children, parent, env, pre, pager, hm, ea>>

ReadDirFill(t) ==
  /\ th[t].pc = "read_dir_fill"
  /\ LET r == th[t]
         res == read_dir(children[r.cur], r.start, r.slots)
     IN  /\ ReadUnlock(t, r.cur)
         /\ Commit(kind, children,
              [th EXCEPT ![t] = [Done(r, "Ok") EXCEPT !.count = res.count,
                                                      !.slots = res.slots]])
  /\ UNCHANGED <<env, pre, pager, hm, ea>>

\* ------------------------------------------------------------- return
\* the caller takes the result
Return(t) ==
  /\ th[t].pc = "done"
  /\ th[t].op # "read_dir_page"
  /\ Commit(kind, children, [th EXCEPT ![t] = Idle])
  /\ pre' = NoSnapshot
  /\ UNCHANGED <<writer, readers, env, pager, hm, ea>>

\* the paging caller appends the page it got and advances by its length
ReturnPage(t) ==
  /\ th[t].pc = "done"
  /\ th[t].op = "read_dir_page"
  /\ Commit(kind, children, [th EXCEPT ![t] = Idle])
  /\ pre' = NoSnapshot
  /\ pager' = [pager EXCEPT !.cursor = @ + th[t].count,
                            !.out = @ \o SubSeq(th[t].slots, 1, th[t].count),
                            !.last = th[t].count]
  /\ UNCHANGED <<writer, readers, env, hm, ea>>

\* ------------------------------------------------------ callers' inputs
SeqPaths ==
  { <<"a">>, <<"b">>, <<"a", "/", "b">>, << >>, <<".">>, <<".", ".">>,
    <<"a", "/", ".", ".">>, <<"a", "/">>, <<".", ".", "/", "a">> }
SeqCreates ==
  (SeqPaths \X {"File", "Dir"})
    \cup { << <<"a">>, "CharDevice" >>, << <<".">>, "CharDevice" >> }
SeqRenames ==
  { << <<"a">>, <<"b">> >>,
    << <<"a">>, <<"a">> >>,
    << <<"b">>, <<"a", "/", "b">> >>,
    << <<"a", "/", "b">>, <<"b">> >>,
    << <<"a">>, <<"a", "/", "b">> >>,
    << <<"a">>, <<".", ".">> >>,
    << <<"b">>, <<"a", "/">> >>,
    << << >>, <<"b">> >>,
    << <<"a">>, <<".", ".", "/", "b">> >> }

ConcCreates ==
  { << <<"a">>, "Dir" >>, << <<"b">>, "File" >>, << <<"a", "/", "b">>, "File" >> }
ConcRemovePaths == { <<"a">>, <<"a", "/", "b">> }
ConcLookupPaths == { <<"a", "/", "b">> }
ConcRenames ==
  { << <<"b">>, <<"a", "/", "b">> >>,
    << <<"a", "/", "b">>, <<"b">> >>,
    << <<"a">>, <<"b">> >> }

ListNames == { <<"a">>, <<"b">>, <<"c">> }

\* one caller of a file system that is mounted at /tmp and has a directory tmp
TMP == <<"t", "m", "p">>
MountPaths == { TMP, TMP \o <<"/", "a">>, TMP \o <<"/", "b">>, <<"b">> }
MountCreates == { <<TMP, "Dir">>, <<TMP \o <<"/", "a">>, "File">> }
MountRenames ==
  { <<TMP \o <<"/", "a">>, TMP \o <<"/", "b">> >>,
    <<<<"/">> \o TMP \o <<"/", "a">>, <<"/">> \o TMP \o <<"/", "b">> >>,
    <<TMP \o <<"/", "a">>, <<"b">> >>,
    << <<"b">>, <<"a">> >> }

LookupPaths ==
  IF env = "seq" THEN SeqPaths ELSE IF env = "mount" THEN MountPaths ELSE ConcLookupPaths
Creates ==
  IF env = "seq" THEN SeqCreates ELSE IF env = "mount" THEN MountCreates ELSE ConcCreates
RemovePaths ==
  IF env = "seq" THEN SeqPaths ELSE IF env = "mount" THEN MountPaths ELSE ConcRemovePaths
Renames ==
  IF env = "seq" THEN SeqRenames ELSE IF env = "mount" THEN MountRenames ELSE ConcRenames

\* ------------------------------------------------------------ HashMap
\* u64 arithmetic: a u64 is its eight bytes, the least significant first
U64(n) == <<n % 256, (n \div 256) % 256, 0, 0, 0, 0, 0, 0>>

\* the eight bytes f[1] .. f[8] as a tuple
Bytes(f) == <<f[1], f[2], f[3], f[4], f[5], f[6], f[7], f[8]>>

wrapping_add(a, b) ==
  LET c[i \in 0 .. 8] == IF i = 0 THEN 0 ELSE (a[i] + b[i] + c[i - 1]) \div 256
  IN  Bytes([i \in 1 .. 8 |-> (a[i] + b[i] + c[i - 1]) % 256])

wrapping_mul(a, b) ==
  LET col(k) ==
        LET s[i \in 0 .. k] == IF i = 0 THEN 0 ELSE s[i - 1] + a[i] * b[k + 1 - i]
        IN  s[k]
      t[k \in 0 .. 8] == IF k = 0 THEN 0 ELSE col(k) + (t[k - 1] \div 256)
  IN  Bytes([k \in 1 .. 8 |-> t[k] % 256])

RECURSIVE BitXor(_, _)
BitXor(x, y) ==
  IF x = 0 THEN y
  ELSE IF y = 0 THEN x
  ELSE (((x % 2) + (y % 2)) % 2) + 2 * BitXor(x \div 2, y \div 2)

xor(a, b) == Bytes([i \in 1 .. 8 |-> BitXor(a[i], b[i])])

\* a >> n
shr(a, n) ==
  LET q == n \div 8
      r == n % 8
      byte(i) == IF i <= 8 THEN a[i] ELSE 0
  IN  Bytes([i \in 1 .. 8 |->
               (byte(i + q) \div (2^r)) + (byte(i + q + 1) % (2^r)) * (2^(8 - r))])

FNV_OFFSET_BASIS == <<37, 35, 34, 132, 228, 156, 242, 203>>   \* 0xcbf29ce484222325
FNV_PRIME == <<179, 1, 0, 0, 0, 1, 0, 0>>                     \* 0x100000001b3
FINISH_MUL_1 == <<185, 229, 228, 28, 109, 71, 88, 191>>       \* 0xbf58476d1ce4e5b9
FINISH_MUL_2 == <<235, 17, 49, 19, 187, 73, 208, 148>>        \* 0x94d049bb133111eb

\* SimpleHasher::new(seed)
SimpleHasherNew(seed) == wrapping_mul(wrapping_add(FNV_OFFSET_BASIS, seed), FNV_PRIME)

\* Hasher::write
RECURSIVE write(_, _)
write(state, bytes) ==
  IF bytes = << >> THEN state
  ELSE write(xor(wrapping_mul(state, FNV_PRIME), U64(Head(bytes))), Tail(bytes))

\* Hasher::finish
finish(state) ==
  LET x1 == xor(state, shr(state, 30))
      x2 == wrapping_mul(x1, FINISH_MUL_1)
      x3 == xor(x2, shr(x2, 27))
      x4 == wrapping_mul(x3, FINISH_MUL_2)
  IN  xor(x4, shr(x4, 31))

\* make_hash with the value ax_rand_u64 returned to build_hasher; a u8 key
\* hashes as its one byte
make_hash(seed, key) == finish(write(SimpleHasherNew(U64(seed)), <<key>>))

\* the keys and values of the map's caller, and the values ax_rand_u64 returns
MaxEntries == 8
Keys == 1 .. 4
Values == 1 .. 1
\* the caller's insert calls: every key with the first value, the first key
\* with every value
Inserts == {kv \in Keys \X Values : kv[1] = 1 \/ kv[2] = 1}
\* the caller's get calls: the key it inserts with every value
Gets == {1}
Seeds == 0 .. 1
None == 0

INITIAL_CAPACITY == 8

\* the hash of every key under every seed; the map's state carries this table
\* (field hash) so that it is computed once
HashOf == [sk \in Seeds \X Keys |-> make_hash(sk[1], sk[2])]

\* hash & (buckets.len() - 1), the number of buckets being a power of two
bucket_index(hash, cap) == IF cap = 0 THEN 0 ELSE (hash[1] + 256 * hash[2]) % cap

NoCall == [op |-> "none", key |-> None, ret |-> None, prev |-> None, keys |-> << >>]

\* HashMap::new() and a caller that has inserted nothing
HashMapNew ==
  [buckets |-> [i \in 1 .. INITIAL_CAPACITY |-> << >>], len |-> 0,
   ref |-> [k \in Keys |-> None], last |-> NoCall, hash |-> HashOf]
NoMap ==
  [buckets |-> << >>, len |-> 0, ref |-> [k \in Keys |-> None], last |-> NoCall,
   hash |-> << >>]

\* the items in the order the buckets hold them
RECURSIVE Flatten(_)
Flatten(bs) == IF bs = << >> THEN << >> ELSE Head(bs) \o Flatten(Tail(bs))

\* resize's loop: the items pushed into the new buckets, seeds[i] being what
\* ax_rand_u64 returned for item i
RECURSIVE Rehash(_, _, _, _, _)
Rehash(hash, items, seeds, i, bs) ==
  IF i > Len(items) THEN bs
  ELSE LET index == bucket_index(hash[<<seeds[i], items[i][1]>>], Len(bs))
       IN  Rehash(hash, items, seeds, i + 1,
                  [bs EXCEPT ![index + 1] = Append(@, items[i])])

\* load_factor > LOAD_FACTOR_THRESHOLD (0.75)
OverLoad(len, cap) == 4 * len > 3 * cap

\* the number of items resize pushes again, each under a hasher of its own
Rehashed(m) == IF OverLoad(m.len, Len(m.buckets)) THEN m.len ELSE 0

\* resize_if_needed and resize: the buckets afterwards
resize_if_needed(m, seeds) ==
  IF m.buckets = << >> THEN [i \in 1 .. INITIAL_CAPACITY |-> << >>]
  ELSE IF OverLoad(m.len, Len(m.buckets))
  THEN Rehash(m.hash, Flatten(m.buckets), seeds, 1,
              [i \in 1 .. 2 * Len(m.buckets) |-> << >>])
  ELSE m.buckets

\* the position of key in a bucket's items, 0 when it is not there
Position(items, key) ==
  IF \E i \in 1 .. Len(items) : items[i][1] = key
  THEN CHOOSE i \in 1 .. Len(items) :
         items[i][1] = key /\ \A j \in 1 .. (i - 1) : items[j][1] # key
  ELSE 0

\* HashMap::insert
HashMapInsert(key, value) ==
  /\ env = "hashmap"
  /\ hm.len < MaxEntries
  /\ \E seeds \in [1 .. Rehashed(hm) -> Seeds], seed \in Seeds :
       LET buckets == resize_if_needed(hm, seeds)
           index == bucket_index(hm.hash[<<seed, key>>], Len(buckets)) + 1
           pos == Position(buckets[index], key)
           call == [NoCall EXCEPT !.op = "insert", !.key = key, !.prev = hm.ref[key]]
       IN  hm' = IF pos # 0
                 THEN [hm EXCEPT !.buckets = [buckets EXCEPT ![index][pos][2] = value],
                                 !.ref[key] = value,
                                 !.last = [call EXCEPT !.ret = buckets[index][pos][2]]]
                 ELSE [hm EXCEPT !.buckets = [buckets EXCEPT ![index] = Append(@, <<key, value>>)],
                                 !.len = @ + 1,
                                 !.ref[key] = value,
                                 !.last = call]
  /\ UNCHANGED <<kind, children, parent, writer, readers, th, env, pre, pager, ea>>

\* HashMap::get
HashMapGet(key) ==
  /\ env = "hashmap"
  /\ \E seed \in Seeds :
       LET index == bucket_index(hm.hash[<<seed, key>>], Len(hm.buckets)) + 1
           pos == IF hm.len = 0 \/ hm.buckets = << >> THEN 0
                  ELSE Position(hm.buckets[index], key)
       IN  hm' = [hm EXCEPT !.last =
                    [NoCall EXCEPT !.op = "get", !.key = key,
                                   !.ret = IF pos = 0 THEN None
                                           ELSE hm.buckets[index][pos][2]]]
  /\ UNCHANGED <<kind, children, parent, writer, readers, th, env, pre, pager, ea>>

\* HashMap::iter run to its end: the keys it yields
HashMapIter ==
  /\ env = "hashmap"
  /\ LET items == Flatten(hm.buckets)
     IN  hm' = [hm EXCEPT !.last =
                  [NoCall EXCEPT !.op = "iter",
                                 !.keys = [i \in 1 .. Len(items) |-> items[i][1]]]]
  /\ UNCHANGED <<kind, children, parent, writer, readers, th, env, pre, pager, ea>>

\* ------------------------------------------------------ EarlyAllocator
\* EarlyAllocator<4>: the page size is the type's const parameter
PAGE_SIZE == 4
MaxAllocs == 3

\* the caller's arguments: init(start, size), Layout (size, align), page counts
\* and page alignments; the addresses at which the build may place POOL
Starts == {8}
RegionSizes == {8, 16}
LayoutSizes == {1, 3}
LayoutAligns == {1, 4}
PageCounts == {1, 2}
PageAligns == {1, 2}
PoolAddrs == {8, 9}

NoAllocCall == [op |-> "none", ret |-> "none", b_pos |-> 0, p_pos |-> 0]

\* EarlyAllocator::new(), POOL placed at pool, and a caller that has nothing
EarlyAllocatorNew(pool) ==
  [start |-> 0, end |-> 0, b_pos |-> 0, p_pos |-> 0, used_bytes |-> 0,
   used_pages |-> 0, inited |-> FALSE, pool |-> pool,
   bytes |-> << >>, live |-> {}, pages |-> << >>, live_pages |-> {},
   last |-> NoAllocCall]
NoAllocator == EarlyAllocatorNew(0)

saturating_sub(a, b) == IF a >= b THEN a - b ELSE 0

\* (x + align - 1) & !(align - 1) and x & !(align - 1), align a power of two
AlignUp(x, align) == ((x + align - 1) \div align) * align
AlignDown(x, align) == (x \div align) * align

\* what the call about to run sees of the two positions
Called(op) == [op |-> op, ret |-> "Ok", b_pos |-> ea.b_pos, p_pos |-> ea.p_pos]

EarlyAllocatorInit(start, size) ==
  /\ env = "alloc"
  /\ ~ea.inited
  /\ ea' = [ea EXCEPT !.start = start, !.end = start + size, !.b_pos = start,
                      !.p_pos = start + size, !.used_bytes = 0, !.used_pages = 0,
                      !.inited = TRUE, !.last = Called("init")]
  /\ UNCHANGED <<kind, children, parent, writer, readers, th, env, pre, pager, hm>>

\* ByteAllocator::alloc: the pointer returned is POOL.as_mut_ptr().add(pos - start)
Alloc(size, align) ==
  /\ env = "alloc"
  /\ Len(ea.bytes) < MaxAllocs
  /\ LET pos == AlignUp(ea.b_pos, align)
     IN  ea' = IF ~ea.inited \/ pos + size > ea.p_pos
               THEN [ea EXCEPT !.last = [Called("alloc") EXCEPT !.ret = "NoMemory"]]
               ELSE [ea EXCEPT !.b_pos = pos + size,
                               !.used_bytes = @ + size,
                               !.bytes = Append(@, [ptr |-> ea.pool + (pos - ea.start),
                                                    size |-> size, align |-> align]),
                               !.live = @ \cup {Len(ea.bytes) + 1},
                               !.last = Called("alloc")]
  /\ UNCHANGED <<kind, children, parent, writer, readers, th, env, pre, pager, hm>>

\* ByteAllocator::dealloc of an allocation the caller still has
Dealloc(i) ==
  /\ env = "alloc"
  /\ i \in ea.live
  /\ ea' = [ea EXCEPT !.used_bytes = saturating_sub(@, ea.bytes[i].size),
                      !.live = @ \ {i},
                      !.last = Called("dealloc")]
  /\ UNCHANGED <<kind, children, parent, writer, readers, th, env, pre, pager, hm>>

\* ByteAllocator::available_bytes
available_bytes(a) == saturating_sub(a.p_pos, a.b_pos)

\* PageAllocator::alloc_pages
AllocPages(num_pages, align_pow2) ==
  /\ env = "alloc"
  /\ Len(ea.pages) < MaxAllocs
  /\ LET size == num_pages * PAGE_SIZE
         new_p_pos == AlignDown(ea.p_pos - size, align_pow2 * PAGE_SIZE)
     IN  ea' = IF ~ea.inited \/ ea.p_pos < size \/ new_p_pos < ea.b_pos
               THEN [ea EXCEPT !.last = [Called("alloc_pages") EXCEPT !.ret = "NoMemory"]]
               ELSE [ea EXCEPT !.p_pos = new_p_pos,
                               !.used_pages = @ + num_pages,
                               !.pages = Append(@, [pos |-> new_p_pos, size |-> size,
                                                    num_pages |-> num_pages]),
                               !.live_pages = @ \cup {Len(ea.pages) + 1},
                               !.last = Called("alloc_pages")]
  /\ UNCHANGED <<kind, children, parent, writer, readers, th, env, pre, pager, hm>>

\* PageAllocator::dealloc_pages of pages the caller still has
DeallocPages(i) ==
  /\ env = "alloc"
  /\ i \in ea.live_pages
  /\ ea' = [ea EXCEPT !.used_pages = saturating_sub(@, ea.pages[i].num_pages),
                      !.live_pages = @ \ {i},
                      !.last = Called("dealloc_pages")]
  /\ UNCHANGED <<kind, children, parent, writer, readers, th, env, pre, pager, hm>>

\* ------------------------------------------------------ specifications
\* RamFileSystem's root: DirNode::new(None), nothing else allocated
InitTree ==
  /\ kind = [n \in Nodes |-> IF n = Root THEN "Dir" ELSE "Free"]
  /\ children = [n \in Nodes |-> {}]
  /\ parent = [n \in Nodes |-> NONE]
  /\ writer = [n \in Nodes |-> NoThread]
  /\ readers = [n \in Nodes |-> {}]
  /\ th = [t \in Threads |-> Idle]
  /\ pre = NoSnapshot
  /\ pager = NoPager

Init == env = "conc" /\ InitTree /\ hm = NoMap /\ ea = NoAllocator
InitSeq == env = "seq" /\ InitTree /\ hm = NoMap /\ ea = NoAllocator
InitMount == env = "mount" /\ InitTree /\ hm = NoMap /\ ea = NoAllocator

\* a root whose children were created under some of ListNames, in name order
InitList ==
  /\ env = "list"
  /\ \E f \in [ListNames -> {"Free", "File", "Dir"}] :
       LET chosen == {n \in ListNames : f[n] # "Free"}
           id(n) == 1 + Cardinality({m \in chosen : StrLess(m, n)})
       IN  /\ Cardinality(chosen) <= MaxNodes - 1
           /\ kind = [n \in Nodes |->
                        IF n = Root THEN "Dir"
                        ELSE IF \E c \in chosen : id(c) = n
                        THEN f[CHOOSE c \in chosen : id(c) = n]
                        ELSE "Free"]
           /\ children = [n \in Nodes |->
                            IF n = Root THEN {<<c, id(c)>> : c \in chosen} ELSE {}]
           /\ parent = [n \in Nodes |->
                          IF \E c \in chosen : id(c) = n /\ f[c] = "Dir" THEN Root ELSE NONE]
  /\ writer = [n \in Nodes |-> NoThread]
  /\ readers = [n \in Nodes |-> {}]
  /\ th = [t \in Threads |-> Idle]
  /\ pre = NoSnapshot
  /\ \E k \in 1 .. MaxCap : pager = [NoPager EXCEPT !.k = k]
  /\ hm = NoMap
  /\ ea = NoAllocator

\* one step of the operation thread t is in
Step(t) ==
  \/ Lookup(t)
  \/ LookupGet(t)
  \/ Create(t)
  \/ CreateGet(t)
  \/ CreateNodeExist(t)
  \/ CreateNodeCheck(t)
  \/ CreateNodeWrite(t)
  \/ CreateNodeInsert(t)
  \/ Remove(t)
  \/ RemoveGet(t)
  \/ RemoveNodeWrite(t)
  \/ RemoveNodeGet(t)
  \/ RemoveNodeDirRead(t)
  \/ RemoveNodeEmpty(t)
  \/ RemoveNodeRemove(t)
  \/ RenameNodeWrite(t)
  \/ RenameNodeMove(t)
  \/ RenameOldWrite(t)
  \/ RenameRemove(t)
  \/ RenameNewWrite(t)
  \/ RenameInsert(t)

Next ==
  \E t \in Threads :
    \/ \E p \in LookupPaths : CallLookup(t, p)
    \/ \E c \in Creates : CallCreate(t, c[1], c[2])
    \/ \E p \in RemovePaths : CallRemove(t, p)
    \/ \E pp \in Renames : CallRename(t, pp[1], pp[2])
    \/ Step(t)
    \/ Return(t)

NextList ==
  \E t \in Threads :
    \/ \E s \in 0 .. MaxStart, c \in 0 .. MaxCap : CallReadDir(t, s, c)
    \/ CallReadDirPage(t)
    \/ ReadDirRead(t)
    \/ ReadDirFill(t)
    \/ Return(t)
    \/ ReturnPage(t)

InitHashMap == env = "hashmap" /\ InitTree /\ hm = HashMapNew /\ ea = NoAllocator

NextHashMap ==
  \/ \E kv \in Inserts : HashMapInsert(kv[1], kv[2])
  \/ \E k \in Gets : HashMapGet(k)
  \/ HashMapIter

SpecHashMap == InitHashMap /\ [][NextHashMap]_vars

InitAlloc ==
  /\ env = "alloc" /\ InitTree /\ hm = NoMap
  /\ \E pool \in PoolAddrs : ea = EarlyAllocatorNew(pool)

NextAlloc ==
  \/ \E start \in Starts, size \in RegionSizes : EarlyAllocatorInit(start, size)
  \/ \E size \in LayoutSizes, align \in LayoutAligns : Alloc(size, align)
  \/ \E i \in 1 .. MaxAllocs : Dealloc(i)
  \/ \E n \in PageCounts, a \in PageAligns : AllocPages(n, a)
  \/ \E i \in 1 .. MaxAllocs : DeallocPages(i)

SpecAlloc == InitAlloc /\ [][NextAlloc]_vars

\* ------------------------------------------------- split_parent_name
\* the paths handed to split_parent_name: every string of at most MaxLen
\* characters over "/", "a" and "."
SplitChars == {"/", "a", "."}
SplitInputs == UNION {[1 .. n -> SplitChars] : n \in 0 .. MaxLen}

CallSplitParentName(t, p) ==
  /\ t \in ActiveThreads
  /\ th[t].pc = "idle"
  /\ th' = [th EXCEPT ![t] = [Idle EXCEPT !.pc = "split_parent_name",
                                          !.op = "split_parent_name", !.arg = p]]
  /\ UNCHANGED <<kind, children, parent, writer, readers, env, pre, pager, hm, ea>>

\* Ok((parent, name)): the pair is kept in the caller's path and name
SplitParentName(t) ==
  /\ th[t].pc = "split_parent_name"
  /\ LET pn == split_parent_name(th[t].arg)
     IN  th' = [th EXCEPT ![t] = [Done(th[t], "Ok") EXCEPT !.path = pn.parent,
                                                          !.name = pn.name]]
  /\ UNCHANGED <<kind, children, parent, writer, readers, env, pre, pager, hm, ea>>

InitSplit == env = "split" /\ InitTree /\ hm = NoMap /\ ea = NoAllocator

NextSplit ==
  \E t \in Threads :
    \/ \E p \in SplitInputs : CallSplitParentName(t, p)
    \/ SplitParentName(t)
    \/ Return(t)

Spec == Init /\ [][Next]_vars
SpecSplit == InitSplit /\ [][NextSplit]_vars
SpecSeq == InitSeq /\ [][Next]_vars
SpecMount == InitMount /\ [][Next]_vars
SpecList == InitList /\ [][NextList]_vars

\* =============================================================== claims
ChildrenOf(n) == {e[2] : e \in children[n]}

RECURSIVE ReachFrom(_)
ReachFrom(S) ==
  LET S2 == S \cup UNION {ChildrenOf(n) : n \in S}
  IN  IF S2 = S THEN S ELSE ReachFrom(S2)

\* the nodes below n: its children, their children, ...
Descendants(n) == ReachFrom(ChildrenOf(n))

Finished(t, op) == th[t].pc = "done" /\ th[t].op = op

\* one component resolved on directory d as lookup resolves it (NONE: NotFound)
LookupOne(d, name) ==
  IF name = EMPTY \/ name = DOT THEN d
  ELSE IF name = DOTDOT THEN ParentOf(d)
  ELSE get(children[d], name)

\* lookup as a function of the tree: the node a path leads to from d
\* (NONE: NotFound, NOTDIR: the walk passed through a file)
NOTDIR == NONE - 1

RECURSIVE lookup_path(_, _)
lookup_path(d, path) ==
  LET sp == split_path(path)
      node == LookupOne(d, sp.name)
  IN  IF node = NONE THEN NONE
      ELSE IF sp.has_rest
      THEN IF kind[node] = "File" THEN NOTDIR ELSE lookup_path(node, sp.rest)
      ELSE node

\* a path as the list of its components: the text between the slashes
RECURSIVE Components(_)
Components(path) ==
  LET n == find(path, "/")
  IN  IF n = 0 THEN <<path>>
      ELSE <<SubSeq(path, 1, n - 1)>> \o Components(SubSeq(path, n + 1, Len(path)))

Front(s) == SubSeq(s, 1, Len(s) - 1)
Last(s) == s[Len(s)]

\* the tree as it is now
Now == [kind |-> kind, children |-> children, parent |-> parent]

SelfNames == {EMPTY, DOT, DOTDOT}

\* what one component names at directory d of the tree s, read off the tables
\* and the parent references (NONE: nothing)
ResolveOne(s, d, c) ==
  IF c = EMPTY \/ c = DOT THEN d
  ELSE IF c = DOTDOT
  THEN IF s.parent[d] \in Nodes /\ s.kind[s.parent[d]] = "Dir" THEN s.parent[d] ELSE NONE
  ELSE IF \E e \in s.children[d] : e[1] = c
  THEN (CHOOSE e \in s.children[d] : e[1] = c)[2]
  ELSE NONE

\* the components resolved from left to right in the tree s, starting at d
RECURSIVE ResolveComps(_, _, _)
ResolveComps(s, d, comps) ==
  IF d = NONE \/ comps = << >> THEN d
  ELSE IF s.kind[d] # "Dir" THEN NOTDIR
  ELSE ResolveComps(s, ResolveOne(s, d, Head(comps)), Tail(comps))

\* the directory the components before the last lead to, and the last component
WalkedDir(s, path) == ResolveComps(s, Root, Front(Components(path)))
Terminal(path) == Last(Components(path))
IsDir(s, d) == d \in Nodes /\ s.kind[d] = "Dir"

\* C1: after any sequence of create, remove and rename calls no directory is in
\* its own child table or in the child table of one of its descendants.
C1_Acyclic == \A n \in Nodes : n \notin Descendants(n)

\* C2: when calls do not overlap, remove_node of a name bound to a directory with
\* children returns DirectoryNotEmpty and changes no table; bound to an empty
\* directory or to a file it returns Ok and the name is gone from the parent.
C2_NonEmptyDirRule ==
  \A t \in Threads :
    (Finished(t, "remove") /\ th[t].name # EMPTY) =>
      LET r == th[t]
          P == r.cur
          D == get(pre.children[P], r.name)
      IN  /\ D = NONE => r.ret = "NotFound"
          /\ (D # NONE /\ pre.kind[D] = "Dir" /\ pre.children[D] # {}) =>
               /\ r.ret = "DirectoryNotEmpty"
               /\ children = pre.children
          /\ (D # NONE /\ (pre.kind[D] = "File" \/ pre.children[D] = {})) =>
               /\ r.ret = "Ok"
               /\ ~contains_key(children[P], r.name)
               /\ \A e \in pre.children[P] : e[1] # r.name => e \in children[P]

C2_Witness ==
  \E t \in Threads : Finished(t, "remove") /\ th[t].ret = "DirectoryNotEmpty"

\* C3: when calls do not overlap, a rename that returns an error leaves every
\* child table (and every node) as it was when the call began; so also the
\* cross-directory rename that finds new_name taken.
C3_FailedRenameNoOp ==
  \A t \in Threads :
    (Finished(t, "rename") /\ th[t].ret # "Ok") =>
      /\ children = pre.children
      /\ kind = pre.kind

C3_Witness ==
  \E t \in Threads :
    /\ Finished(t, "rename")
    /\ th[t].ret = "AlreadyExists"
    /\ th[t].newp # NONE
    /\ th[t].newp # th[t].oldp
    /\ th[t].node # NONE

RenameCrossPcs == {"rename_cross", "rename_remove", "rename_new_write", "rename_insert"}

\* the node a cross-directory rename moves: the one it took out of the source
\* table, before that the one bound to old_name
MovedNode(r) ==
  IF r.pc \in {"rename_new_write", "rename_insert"} THEN r.node
  ELSE get(children[r.oldp], r.name)

C5_EveryOperationReturns ==
  LET pending == {t \in Threads : th[t].pc \notin {"idle", "done"}}
  IN  pending # {} => \E t \in pending : ENABLED Step(t)

\* C6: create never replaces an entry: at the step at which create_node inserts
\* its node the name is not in the directory's table.
C6_CreateNeverReplaces ==
  [][\A t \in Threads :
       (th[t].pc = "create_node_insert" /\ th'[t].pc = "done") =>
         ~contains_key(children[th[t].cur], th[t].name)]_vars

\* C7: when calls do not overlap, a rename whose two paths resolve to the same
\* directory D returns NotFound without old, else AlreadyExists with new, else
\* Ok, and then lookup of old on D finds nothing, lookup of new finds the node
\* old was bound to, and D's other entries are as before.
C7_SameDirRename ==
  \A t \in Threads :
    (Finished(t, "rename") /\ th[t].oldp # NONE /\ th[t].newp = th[t].oldp) =>
      LET r == th[t]
          D == r.oldp
          tbl == pre.children[D]
      IN  IF ~contains_key(tbl, r.name) THEN r.ret = "NotFound"
          ELSE IF contains_key(tbl, r.new_name) THEN r.ret = "AlreadyExists"
          ELSE /\ r.ret = "Ok"
               /\ LookupOne(D, r.name) = NONE
               /\ LookupOne(D, r.new_name) = get(tbl, r.name)
               /\ \A e \in tbl : e[1] # r.name => e \in children[D]
               /\ \A e \in children[D] : e[1] # r.new_name => e \in tbl

\* C8: in every reachable state, under any interleaving, each child table holds
\* at most one entry for a name.
C8_UniqueNames ==
  \A d \in Nodes : \A e1, e2 \in children[d] : e1[1] = e2[1] => e1 = e2

\* two creates of one name in one directory both returned Ok
C8_Witness ==
  \E t \in Threads, u \in Threads :
    /\ t # u
    /\ Finished(t, "create") /\ th[t].ret = "Ok" /\ th[t].name # EMPTY
    /\ Finished(u, "create") /\ th[u].ret = "Ok"
    /\ th[u].cur = th[t].cur
    /\ th[u].name = th[t].name
    /\ Cardinality({e \in children[th[t].cur] : e[1] = th[t].name}) = 1

\* entry j (from 1) of the virtual sequence of a table: ".", "..", then the
\* children by ascending name, each with its node's type
VEntry(tbl, j) ==
  IF j = 1 THEN [name |-> DOT, ty |-> "Dir"]
  ELSE IF j = 2 THEN [name |-> DOTDOT, ty |-> "Dir"]
  ELSE LET e == CHOOSE x \in tbl :
                  Cardinality({f \in tbl : StrLess(f[1], x[1])}) = j - 3
       IN  [name |-> e[1], ty |-> kind[e[2]]]

\* C9: read_dir(start, slots) with capacity c on a directory with n children
\* returns min(c, max(0, n + 2 - start)) and fills slot i below that count with
\* entry start + i of the virtual sequence; it returns less than c only at the
\* end of the sequence.
C9_ReadDirVirtualSequence ==
  \A t \in Threads :
    (Finished(t, "read_dir") \/ Finished(t, "read_dir_page")) =>
      LET r == th[t]
          tbl == children[r.cur]
          n == Cardinality(tbl)
          expect == Min(r.cap, Max(0, n + 2 - r.start))
      IN  /\ r.count = expect
          /\ \A i \in 0 .. (expect - 1) : r.slots[i + 1] = VEntry(tbl, r.start + i + 1)
          /\ r.count < r.cap => r.start + r.count >= n + 2

\* a call that starts at ".." and runs into the children
C9_Witness ==
  \E t \in Threads :
    /\ Finished(t, "read_dir")
    /\ th[t].start = 1
    /\ th[t].cap = 3
    /\ th[t].count = 3
    /\ th[t].slots[1].name = DOTDOT
    /\ th[t].slots[3].ty = "File"

\* C10: the pages a caller gets with a fixed capacity k >= 1, each call starting
\* where the last one ended, are ".", "..", then every child once in ascending
\* name order; a call returns 0 exactly when it starts at or past n + 2.
C10_Pagination ==
  LET tbl == children[Root]
      n == Cardinality(tbl)
  IN  /\ pager.cursor = Len(pager.out)
      /\ Len(pager.out) <= n + 2
      /\ \A j \in 1 .. Len(pager.out) : pager.out[j] = VEntry(tbl, j)
      /\ pager.last = 0 => Len(pager.out) = n + 2
      /\ \A t \in Threads :
           Finished(t, "read_dir_page") =>
             /\ th[t].start = pager.cursor
             /\ (th[t].count = 0) = (th[t].start >= n + 2)

\* children a, b, c listed one entry a call, and the call after them returned 0
C10_Witness ==
  /\ pager.k = 1
  /\ pager.last = 0
  /\ [j \in 1 .. Len(pager.out) |-> pager.out[j].name]
       = <<DOT, DOTDOT, <<"a">>, <<"b">>, <<"c">> >>

\* C11: when create(path, ty) with ty File or Dir succeeds and the final
\* component of path is not empty, "." or "..", lookup(path) returns a node of
\* type ty; a new directory has an empty child table and its parent() is the
\* directory it was created in.
C11_LookupCreateRoundTrip ==
  \A t \in Threads :
    (/\ Finished(t, "create") /\ th[t].ret = "Ok"
     /\ th[t].ty \in {"File", "Dir"}
     /\ Terminal(th[t].arg) \notin SelfNames) =>
      LET n == lookup_path(Root, th[t].arg)
          dir == WalkedDir(Now, th[t].arg)
      IN  /\ n \in Nodes
          /\ NodeType(n) = th[t].ty
          /\ th[t].ty = "Dir" => (children[n] = {} /\ ParentOf(n) = dir)

C11_Witness ==
  \E t \in Threads :
    /\ Finished(t, "create") /\ th[t].ret = "Ok" /\ th[t].ty = "Dir"
    /\ th[t].arg = <<"a", "/", "b">>
    /\ lookup_path(Root, th[t].arg) \in Nodes \ {Root}
    /\ ParentOf(lookup_path(Root, th[t].arg)) = lookup_path(Root, <<"a">>)

\* C12: lookup resolves the components of its path from left to right: an empty
\* component or "." is the current directory, ".." is the parent the current
\* directory refers to (NotFound when it has none), any other name is the entry
\* of the current directory's table (NotFound when absent); and lookup changes
\* no child table and no parent reference.
C12_LookupResolution ==
  \A t \in Threads :
    Finished(t, "lookup") =>
      LET res == ResolveComps(pre, Root, Components(th[t].arg))
      IN  /\ res \in Nodes => (th[t].ret = "Ok" /\ th[t].node = res)
          /\ res = NONE => th[t].ret = "NotFound"
          /\ children = pre.children
          /\ parent = pre.parent
          /\ kind = pre.kind

C12_Witness ==
  \E t \in Threads :
    /\ Finished(t, "lookup") /\ th[t].arg = <<"a", "/", ".", ".">>
    /\ th[t].ret = "Ok" /\ th[t].node = Root
    /\ \E e \in children[Root] : e[1] = <<"a">> /\ parent[e[2]] = Root

\* C13: a remove whose terminal component is empty, "." or ".." returns
\* InvalidInput, and a remove whose terminal name, or an intermediate component,
\* is absent returns NotFound; in both cases every table is as it was.
C13_RemoveRejects ==
  \A t \in Threads :
    Finished(t, "remove") =>
      LET dir == WalkedDir(pre, th[t].arg)
          last == Terminal(th[t].arg)
          unchanged == children = pre.children /\ kind = pre.kind
      IN  /\ (IsDir(pre, dir) /\ last \in SelfNames) =>
                (th[t].ret = "InvalidInput" /\ unchanged)
          /\ (IsDir(pre, dir) /\ last \notin SelfNames
                /\ ~\E e \in pre.children[dir] : e[1] = last) =>
                (th[t].ret = "NotFound" /\ unchanged)
          /\ dir = NONE => (th[t].ret = "NotFound" /\ unchanged)

C13_Witness ==
  \E t \in Threads :
    /\ Finished(t, "remove") /\ th[t].arg = <<"a", "/", ".", ".">>
    /\ th[t].ret = "InvalidInput"
    /\ children[Root] # {}

\* C14: create makes no intermediate directory: when a component before the
\* last is absent (or is ".." at a directory without parent) it returns NotFound
\* and every table is as it was.
C14_CreateNoIntermediates ==
  \A t \in Threads :
    (Finished(t, "create") /\ WalkedDir(pre, th[t].arg) = NONE) =>
      /\ th[t].ret = "NotFound"
      /\ children = pre.children
      /\ kind = pre.kind

C14_Witness ==
  \E t \in Threads :
    /\ Finished(t, "create") /\ th[t].arg = <<"a", "/", "b">>
    /\ th[t].ret = "NotFound"
    /\ ~\E e \in children[Root] : e[1] = <<"a">>

\* C15: a create whose final component is empty, "." or "..", the earlier
\* components leading to a directory, returns success whatever node type was
\* asked for, and every table is as it was.
C15_CreateSelfRefNoOp ==
  \A t \in Threads :
    (/\ Finished(t, "create")
     /\ IsDir(pre, WalkedDir(pre, th[t].arg))
     /\ Terminal(th[t].arg) \in SelfNames) =>
      /\ th[t].ret = "Ok"
      /\ children = pre.children
      /\ kind = pre.kind

C15_Witness ==
  \E t \in Threads :
    /\ Finished(t, "create") /\ th[t].arg = <<"a", "/">>
    /\ th[t].ret = "Ok" /\ th[t].ty = "File"
    /\ \E e \in children[Root] : e[1] = <<"a">> /\ children[e[2]] = {}

\* C16: whatever creates and renames of other threads run beside a remove of a
\* directory D, at the step that deletes D's entry from its parent's table D's
\* own table is empty.
C16_RemovedDirIsEmpty ==
  [][\A t \in Threads :
       (/\ th[t].pc = "remove_node_remove" /\ th'[t].pc = "done"
        /\ th[t].node \in Nodes) =>
         children[th[t].node] = {}]_vars

\* the directories whose child-table lock thread t holds, shared or exclusive
LocksHeld(t) == {n \in Nodes : writer[n] = t \/ t \in readers[n]}

C18_ParentIsContainer ==
  \A p \in Nodes :
    \A e \in children[p] :
      kind[e[2]] = "Dir" => ParentOf(e[2]) = p

\* C19: no child table has a key that is empty, "." or "..", or that contains
\* "/", whether the entry came from create or from rename.
C19_ProperKeys ==
  \A d \in Nodes :
    \A e \in children[d] :
      e[1] \notin SelfNames /\ find(e[1], "/") = 0

\* C20: a rename whose parent directories S and T are different, S having
\* old_name, T lacking new_name, succeeds and moves exactly one entry: afterwards
\* S has no old_name entry, T maps new_name to the very node S had under
\* old_name, and every other entry of S, of T and of every other directory is as
\* it was; when S has no old_name entry the rename returns NotFound.
C20_CrossRenameMovesOneEntry ==
  \A t \in Threads :
    (/\ Finished(t, "rename")
     /\ th[t].oldp \in Nodes /\ th[t].newp \in Nodes
     /\ th[t].oldp # th[t].newp) =>
      LET S == th[t].oldp
          T == th[t].newp
          has == \E e \in pre.children[S] : e[1] = th[t].name
          taken == \E e \in pre.children[T] : e[1] = th[t].new_name
          n == ResolveOne(pre, S, th[t].name)
      IN  /\ (has /\ ~taken) =>
                /\ th[t].ret = "Ok"
                /\ children[S] = pre.children[S] \ {<<th[t].name, n>>}
                /\ children[T] = pre.children[T] \cup {<<th[t].new_name, n>>}
                /\ \A d \in Nodes \ {S, T} : children[d] = pre.children[d]
                /\ kind = pre.kind
          /\ ~has => (th[t].ret = "NotFound" /\ children = pre.children)

C20_Witness ==
  \E t \in Threads :
    /\ Finished(t, "rename") /\ th[t].ret = "Ok"
    /\ th[t].oldp = Root /\ th[t].newp \in Nodes \ {Root}
    /\ th[t].node # th[t].newp
    /\ <<th[t].new_name, th[t].node>> \in children[th[t].newp]
    /\ ~\E e \in children[Root] : e[2] = th[t].node

\* C21: rename normalizes both paths alike (the leading "/" and the mount prefix
\* "tmp/" stripped from old_path and from new_path): when the root has a
\* directory "tmp" that holds "a" and no "b", rename("tmp/a", "tmp/b") resolves
\* the same parent for both paths and leaves the entry in that directory, under
\* the name "b".
C21_RenameNormalizesBoth ==
  \A t \in Threads :
    LET D == ResolveOne(pre, Root, TMP)
        n == ResolveOne(pre, D, <<"a">>)
    IN  (/\ Finished(t, "rename")
         /\ trim_start_matches(th[t].arg, "/") = TMP \o <<"/", "a">>
         /\ trim_start_matches(th[t].arg2, "/") = TMP \o <<"/", "b">>
         /\ IsDir(pre, D)
         /\ n # NONE
         /\ ResolveOne(pre, D, <<"b">>) = NONE) =>
          /\ th[t].ret = "Ok"
          /\ th[t].oldp = th[t].newp
          /\ children[D] = (pre.children[D] \ {<<<<"a">>, n>>}) \cup {<<<<"b">>, n>>}
          /\ children[Root] = pre.children[Root]

\* a path without its leading slashes
StripLeading(p) ==
  LET k == CHOOSE j \in 0 .. Len(p) :
             /\ \A i \in 1 .. j : p[i] = "/"
             /\ j = Len(p) \/ p[j + 1] # "/"
  IN  SubSeq(p, k + 1, Len(p))

HasSlash(s) == \E i \in 1 .. Len(s) : s[i] = "/"

\* C22: split_parent_name never errors; with the leading slashes stripped, a
\* path without "/" gives parent "." and the whole stripped path as leaf; a path
\* with "/" gives as leaf the text after the last "/" (empty for a trailing
\* slash) and as parent the text before it, "/" standing for an empty parent;
\* the leaf never contains "/".
C22_SplitParentName ==
  \A t \in Threads :
    Finished(t, "split_parent_name") =>
      LET s == StripLeading(th[t].arg)
          par == th[t].path
          leaf == th[t].name
      IN  /\ th[t].ret = "Ok"
          /\ ~HasSlash(leaf)
          /\ ~HasSlash(s) => (par = DOT /\ leaf = s)
          /\ HasSlash(s) =>
               \E i \in 1 .. Len(s) :
                 /\ s[i] = "/"
                 /\ leaf = SubSeq(s, i + 1, Len(s))
                 /\ par = IF i = 1 THEN <<"/">> ELSE SubSeq(s, 1, i - 1)

C22_Witness ==
  \E t \in Threads :
    /\ Finished(t, "split_parent_name")
    /\ th[t].arg = <<"/", "a", "/">>
    /\ th[t].path = <<"a">> /\ th[t].name = EMPTY

\* C23: whatever ax_rand_u64 returns on each build_hasher call, the map agrees
\* with a reference map: insert(k, v) returns the value stored for k before
\* (None if there was none) and does not grow len when k was present, get(k)
\* returns the value inserted last for k, len() is the number of distinct keys
\* inserted, and iter() yields every distinct key exactly once.
C23_MapAgreesWithReference ==
  LET inserted == {k \in Keys : hm.ref[k] # None}
      call == hm.last
  IN  /\ hm.len = Cardinality(inserted)
      /\ call.op = "insert" => call.ret = call.prev
      /\ call.op = "get" => call.ret = hm.ref[call.key]
      /\ call.op = "iter" =>
           /\ Len(call.keys) = Cardinality(inserted)
           /\ {call.keys[i] : i \in 1 .. Len(call.keys)} = inserted


\* C24: the byte area is freed when the last byte allocation is
\* deallocated: a step that leaves the allocator with byte allocations made
\* and none of them outstanding leaves b_pos at start and available_bytes at
\* p_pos - start; and pages are never released: no dealloc_pages step raises
\* p_pos.
C24_BytesFreedAtZero ==
  [][/\ (ea'.inited /\ Len(ea'.bytes) > 0 /\ ea'.live = {})
          => /\ ea'.b_pos = ea'.start
             /\ available_bytes(ea') = ea'.p_pos - ea'.start
     /\ ea'.last.op = "dealloc_pages" => ea'.p_pos <= ea.p_pos]_vars

Disjoint(a, an, b, bn) == a + an <= b \/ b + bn <= a

\* C25: after init, start <= b_pos <= p_pos <= end; a successful alloc
\* returns a range [pos, pos + size) with pos aligned to the layout's
\* alignment, inside [start, p_pos) and disjoint from every earlier byte
\* allocation; a successful alloc_pages returns a range inside [b_pos, end)
\* disjoint from every earlier page allocation; a request that does not fit
\* returns NoMemory and leaves b_pos and p_pos as they were; alloc and
\* alloc_pages before init return NoMemory.
C25_AllocatorRanges ==
  LET call == ea.last
      nb == Len(ea.bytes)
      np == Len(ea.pages)
  IN  /\ ea.inited => ea.start <= ea.b_pos /\ ea.b_pos <= ea.p_pos /\ ea.p_pos <= ea.end
      /\ (call.op = "alloc" /\ call.ret = "Ok")
           => /\ ea.bytes[nb].ptr % ea.bytes[nb].align = 0
              /\ ea.start <= ea.bytes[nb].ptr
              /\ ea.bytes[nb].ptr + ea.bytes[nb].size <= ea.p_pos
              /\ \A j \in 1 .. nb - 1 :
                   Disjoint(ea.bytes[nb].ptr, ea.bytes[nb].size,
                            ea.bytes[j].ptr, ea.bytes[j].size)
      /\ (call.op = "alloc_pages" /\ call.ret = "Ok")
           => /\ ea.b_pos <= ea.pages[np].pos
              /\ ea.pages[np].pos + ea.pages[np].size <= ea.end
              /\ \A j \in 1 .. np - 1 :
                   Disjoint(ea.pages[np].pos, ea.pages[np].size,
                            ea.pages[j].pos, ea.pages[j].size)
      /\ call.ret = "NoMemory" => ea.b_pos = call.b_pos /\ ea.p_pos = call.p_pos
      /\ (~ea.inited /\ call.op \in {"alloc", "alloc_pages"}) => call.ret = "NoMemory"

====
